---- MODULE Spec2Model ----
(***************************************************************************)
(* Model of the compression cache of mysong-compress                       *)
(* (src/src/CompressionCache.ts, class CompressionCacheManagerImpl).       *)
(*                                                                         *)
(* State: the in-memory manifest of the live manager instance, and the     *)
(* cache directory on disk (manifest.json and the content-addressed blob   *)
(* files).  One action per method of the class, each one the whole method  *)
(* as it runs when the caller awaits it, plus the constructor (a new       *)
(* instance on the same directory) and the one outside event the contract  *)
(* talks about, the deletion of a blob file.                               *)
(*                                                                         *)
(* Strings that the code takes apart (original paths, regular-expression   *)
(* sources, file paths) are sequences of one-character strings.  A digest  *)
(* is one string made of the bytes: SHA-256 is taken to be collision-free. *)
(* JSON text is a structured value, but JSON.stringify and JSON.parse are  *)
(* modelled by what they do to values JSON cannot hold.                    *)
(*                                                                         *)
(* Spec is the manager in the use its caller makes of it: initialize()     *)
(* once on a new instance, then calls that are awaited one by one, on a    *)
(* storage that works and a directory nothing else writes to.  SpecFaults  *)
(* is the manager as a class: initialize() at any time, a storage that     *)
(* may refuse writes, and a manifest.json that may be removed or replaced  *)
(* from outside.  SpecBuild is the integration: builds of a site, one     *)
(* after the other on the same cache directory, in which the hooks of the  *)
(* integration call the manager; a saveToCache that is not awaited before  *)
(* the next call is two steps, the write of the blob file and the write of *)
(* manifest.json, each of them landing whole.  SpecKeys is the manager of   *)
(* Spec called with keys of every shape: paths with and without an         *)
(* extension, with and without a dot in a directory name.  SpecCalls is     *)
(* one manager whose calls are not awaited one by one: each method runs    *)
(* from one await to the next in a step, and the calls interleave at their *)
(* awaits; there tasks holds the calls, by their number.  SpecHooks is one  *)
(* integration instance whose hook 'astro:build:done' is invoked more than *)
(* once: the candidates and the counters of its closure, with the outcome  *)
(* of each candidate, which SpecBuild derives, left open.                  *)
(***************************************************************************)
EXTENDS Integers, Sequences, FiniteSets, TLC

VARIABLES manifest, initialized, dirExists, writable, manifestFile, blobs, last,
          site, build, tasks, saved

\* The integration that calls the manager: the files of the built site, the
\* integration instance and its hooks, and its work on each candidate file.
driver == <<site, build, tasks>>

\* saved is a history variable: for each key, the compressed bytes given to
\* the last saveToCache for it that returned.  Only SpecKeys records it.

vars == <<manifest, initialized, dirExists, writable, manifestFile, blobs, last,
          site, build, tasks, saved>>

(***************************************************************************)
(* Bounds and input sets                                                   *)
(***************************************************************************)
\* Date.now() returns a value of 0..MaxTime.
MaxTime == 1

Times == 0..MaxTime

\* Original paths (cache keys).
Paths ==
  { <<"a", "/", "x", ".", "p", "n", "g">>,
    <<"b", "/", "z", ".", "p", "n", "g">> }

\* Original file contents (byte sequences).
Originals == { <<1, 1>>, <<2, 2>> }

\* Compressed contents (byte sequences).
Compresseds == { <<7>>, <<8>> }

\* Settings objects: sequences of <<key, value>> in key insertion order.
\* {a:1,b:Infinity}, {b:Infinity,a:1}, {a:1,b:null}
SettingsValues ==
  { << <<"a", "1">>, <<"b", "Infinity">> >>,
    << <<"b", "Infinity">>, <<"a", "1">> >>,
    << <<"a", "1">>, <<"b", "null">> >> }

\* Regular-expression sources given to invalidateCache; <<>> is the empty
\* string / undefined.
Patterns ==
  { <<>>,
    <<"^", "a", "/">>,
    <<"g", "$">>,
    <<"b", ".", "z">>,
    <<"q">> }

(***************************************************************************)
(* Strings, paths and files                                                *)
(***************************************************************************)
\* The result of a call that returns null, or nothing.
NULL == <<>>

\* The index of the last occurrence of ch in s, 0 when there is none.
LastIndexOf(s, ch) ==
  LET at == { i \in 1..Len(s) : s[i] = ch }
  IN  IF at = {} THEN 0 ELSE CHOOSE i \in at : \A j \in at : j <= i

\* originalPath.split('.').pop() || '' : what follows the last dot, the
\* whole path when it has no dot.
Ext(originalPath) ==
  SubSeq(originalPath, LastIndexOf(originalPath, ".") + 1, Len(originalPath))

\* path.join(dir, name)
Join(dir, name) == dir \o <<"/">> \o name

\* The directory a file path lies in.
Dirname(path) == SubSeq(path, 1, LastIndexOf(path, "/") - 1)

\* join(astroDir, '.compress-cache')
CacheDir == Join(<<".astro">>, <<".compress-cache">>)

\* createHash('sha256').update(content).digest('hex')
SHA256(content) == "sha256:" \o ToString(content)

\* The hashes a caller may ask for: the digest of each content.
Hashes == { SHA256(b) : b \in Originals }

\* Mutant of CachedFilePath: the file name also holds the start of the key.
CachedFilePathOfKey(originalPath, sourceHash) ==
  Join(CacheDir, <<sourceHash, ".", originalPath[1], ".">> \o Ext(originalPath))

\* `${sourceHash}.${ext}` inside the cache directory.
CachedFilePath(originalPath, sourceHash) ==
  Join(CacheDir, <<sourceHash, ".">> \o Ext(originalPath))

\* writeFile(path, ...) succeeds when the directory of path exists and the
\* storage takes writes; the cache directory is the only directory the
\* manager ever creates.
CanWrite(path) == dirExists /\ writable /\ Dirname(path) = CacheDir

(***************************************************************************)
(* JSON                                                                    *)
(***************************************************************************)
\* The JSON text of a primitive value: JSON has no Infinity and no NaN.
JSONValue(v) == IF v \in {"Infinity", "NaN"} THEN "null" ELSE v

\* JSON.stringify of a settings object: the members in insertion order,
\* the members JSON cannot hold (undefined) left out.
RECURSIVE StringifySettings(_)
StringifySettings(settings) ==
  IF settings = <<>> THEN <<>>
  ELSE LET m == Head(settings)
           rest == StringifySettings(Tail(settings))
       IN  IF m[2] = "undefined" THEN rest
           ELSE <<[key |-> m[1], json |-> JSONValue(m[2])]>> \o rest

\* JSON.parse of that text: an object with the members of the text.
ParseSettings(text) == [i \in 1..Len(text) |-> <<text[i].key, text[i].json>>]

StringifyEntry(e) ==
  [sourceHash |-> e.sourceHash,
   compressedPath |-> e.compressedPath,
   timestamp |-> e.timestamp,
   settings |-> StringifySettings(e.settings),
   size |-> e.size]

ParseEntry(t) ==
  [sourceHash |-> t.sourceHash,
   compressedPath |-> t.compressedPath,
   timestamp |-> t.timestamp,
   settings |-> ParseSettings(t.settings),
   size |-> t.size]

\* JSON.stringify(this.manifest, null, 2)
StringifyManifest(m) ==
  [version |-> m.version,
   entries |-> [p \in DOMAIN m.entries |-> StringifyEntry(m.entries[p])]]

\* JSON.parse(content), for the text of a manifest
ParseManifest(text) ==
  [version |-> text.version,
   entries |-> [p \in DOMAIN text.entries |-> ParseEntry(text.entries[p])]]

\* Contents of manifest.json that no manager wrote: text that is not JSON,
\* a file that cannot be read, and the JSON texts null and {}.
InvalidJSON == [invalid |-> "{"]

Unreadable == [unreadable |-> "EACCES"]

JSONNull == [json |-> "null"]

JSONEmptyObject == [json |-> "{}"]

\* Mutant of Parses: what readFile or JSON.parse raises is not caught and
\* the content is taken as it is.
ParsesAlways(content) == TRUE

\* readFile and JSON.parse both return for this content of manifest.json.
Parses(content) == DOMAIN content \cap {"invalid", "unreadable"} = {}

\* The value has an object as its member entries.
HasEntries(v) == "entries" \in DOMAIN v

\* JSON.parse(content), whatever JSON the text holds: no shape is asked for.
ParseJSON(text) ==
  IF ~HasEntries(text) THEN text
  ELSE IF "version" \in DOMAIN text THEN ParseManifest(text)
  ELSE [entries |-> [p \in DOMAIN text.entries |-> ParseEntry(text.entries[p])]]

\* JSON.stringify(this.manifest, null, 2), whatever this.manifest holds.
StringifyJSON(m) ==
  IF ~HasEntries(m) THEN m
  ELSE IF "version" \in DOMAIN m THEN StringifyManifest(m)
  ELSE [entries |-> [p \in DOMAIN m.entries |-> StringifyEntry(m.entries[p])]]

(***************************************************************************)
(* Regular expressions: literals, ".", a leading "^" and a trailing "$".   *)
(***************************************************************************)
RegexTest(pattern, s) ==
  LET atStart == Len(pattern) > 0 /\ pattern[1] = "^"
      atEnd == Len(pattern) > 0 /\ pattern[Len(pattern)] = "$"
      body == SubSeq(pattern, IF atStart THEN 2 ELSE 1,
                     IF atEnd THEN Len(pattern) - 1 ELSE Len(pattern))
      MatchAt(i) ==
        /\ i + Len(body) - 1 <= Len(s)
        /\ \A k \in 1..Len(body) : body[k] = "." \/ body[k] = s[i + k - 1]
  IN  \E i \in 1..(Len(s) + 1) :
        /\ atStart => i = 1
        /\ MatchAt(i)
        /\ atEnd => i + Len(body) - 1 = Len(s)

\* Mutant of RegexValid: every pattern is taken for a regular expression.
RegexValidAlways(pattern) == TRUE

\* new RegExp(pattern) returns: a "(" or a "[" that nothing closes is a
\* SyntaxError.
RegexValid(pattern) ==
  \A i \in 1..Len(pattern) : pattern[i] \notin {"(", "["}

(***************************************************************************)
(* The manager                                                             *)
(***************************************************************************)
\* Mutant of EmptyManifest: another version string.
EmptyManifestOtherVersion == [version |-> "0", entries |-> <<>>]

\* { version: '1', entries: {} }
EmptyManifest == [version |-> "1", entries |-> <<>>]

\* The place of manifest.json
ManifestPath == Join(CacheDir, <<"manifest.json">>)

\* Mutant of SaveManifest: manifest.json is left as it is.
SaveManifestSkipped(m) == manifestFile

\* Mutant of SaveManifest: manifest.json is removed.
SaveManifestRemoved(m) == <<>>

\* Mutant of SaveManifest: the manifest is written as it was before the call
\* changed it.
SaveManifestStale(m) == <<StringifyJSON(manifest)>>

\* saveManifest(): the content of manifest.json once m is written to it.
SaveManifest(m) == <<StringifyJSON(m)>>

\* The try block of initialize(): the manifest in memory after it, for m
\* the manifest in memory before it and file the content of manifest.json
\* (<<>> when there is no such file, and readFile raises).
LoadManifest(m, file) ==
  IF file # <<>> /\ Parses(file[1]) THEN ParseJSON(file[1]) ELSE m

\* Mutant of DeleteEntry: nothing is deleted.
DeleteEntryNothing(m, p) == m

\* Mutant of DeleteEntry: every entry is deleted.
DeleteEntryAll(m, p) == [m EXCEPT !.entries = <<>>]

\* delete this.manifest.entries[p]
DeleteEntry(m, p) ==
  [m EXCEPT !.entries = [q \in (DOMAIN m.entries) \ {p} |-> m.entries[q]]]

\* Mutant of PutEntry: the entries older than the new one are dropped.
PutEntryEvictOlder(m, p, e) ==
  [m EXCEPT !.entries =
     [q \in { r \in DOMAIN m.entries : m.entries[r].timestamp >= e.timestamp }
              \cup {p} |-> IF q = p THEN e ELSE m.entries[q]]]

\* Mutant of PutEntry: the entries are replaced by the new one alone.
PutEntryAlone(m, p, e) == [m EXCEPT !.entries = [q \in {p} |-> e]]

\* this.manifest.entries[p] = e
PutEntry(m, p, e) ==
  [m EXCEPT !.entries =
     [q \in (DOMAIN m.entries) \cup {p} |-> IF q = p THEN e ELSE m.entries[q]]]

\* Mutant of HashMatches: the source hash is not looked at.
HashMatchesAlways(entry, sourceHash) == TRUE

\* entry.sourceHash !== sourceHash, negated
HashMatches(entry, sourceHash) == entry.sourceHash = sourceHash

\* Mutant of SettingsMatch: the two objects are compared, not their JSON.
SettingsMatchIdentical(entry, settings) == entry.settings = settings

\* JSON.stringify(entry.settings) !== JSON.stringify(settings), negated
SettingsMatch(entry, settings) ==
  StringifySettings(entry.settings) = StringifySettings(settings)

\* What getCachedFile decides for the manifest m and the blob files: the
\* line it logs, what it returns, whether it removes the entry, and whether
\* this.manifest.entries[originalPath] raises a TypeError, as it does when
\* the manifest is null or has no member entries.
GetCachedFileOutcome(m, files, originalPath, sourceHash, settings) ==
  LET entry == m.entries[originalPath]
      Outcome(log, result, heal) ==
        [log |-> log, result |-> result, heal |-> heal, threw |-> FALSE]
  IN  IF ~HasEntries(m)
      THEN [log |-> "Retrieving cached file for", result |-> NULL,
            heal |-> FALSE, threw |-> TRUE]
      ELSE IF originalPath \notin DOMAIN m.entries
      THEN Outcome("No cache entry found.", NULL, FALSE)
      ELSE IF ~HashMatches(entry, sourceHash)
      THEN Outcome("Source hash mismatch.", NULL, FALSE)
      ELSE IF ~SettingsMatch(entry, settings)
      THEN Outcome("Settings mismatch.", NULL, FALSE)
      ELSE IF entry.compressedPath \in DOMAIN files
      THEN Outcome("Cache hit, file exists.", <<entry>>, FALSE)
      ELSE Outcome("Cached file does not exist, removing entry.", NULL, TRUE)

\* Mutant of NewEntry: the original size is taken from the compressed bytes.
NewEntrySizeOfCompressed(originalPath, originalContent, compressedContent, settings, now) ==
  [sourceHash |-> SHA256(originalContent),
   compressedPath |-> CachedFilePath(originalPath, SHA256(originalContent)),
   timestamp |-> now,
   settings |-> settings,
   size |-> [original |-> Len(compressedContent),
             compressed |-> Len(compressedContent)]]

\* The entry saveToCache builds.
NewEntry(originalPath, originalContent, compressedContent, settings, now) ==
  [sourceHash |-> SHA256(originalContent),
   compressedPath |-> CachedFilePath(originalPath, SHA256(originalContent)),
   timestamp |-> now,
   settings |-> settings,
   size |-> [original |-> Len(originalContent),
             compressed |-> Len(compressedContent)]]

\* Mutant of WriteBlob: a file that exists is not written again.
WriteBlobKeepExisting(files, path, content) ==
  [f \in (DOMAIN files) \cup {path} |->
     IF f \in DOMAIN files THEN files[f] ELSE content]

\* Mutant of WriteBlob: the content is appended to a file that exists.
WriteBlobAppend(files, path, content) ==
  [f \in (DOMAIN files) \cup {path} |->
     IF f # path THEN files[f]
     ELSE IF f \in DOMAIN files THEN files[f] \o content ELSE content]

\* writeFile(cachedFilePath, compressedContent): the blob files after it.
WriteBlob(files, path, content) ==
  [f \in (DOMAIN files) \cup {path} |-> IF f = path THEN content ELSE files[f]]

\* Mutant of InvalidatedEntries: without a pattern nothing is removed.
InvalidatedEntriesPatternOnly(entries, pattern) ==
  [p \in { q \in DOMAIN entries : pattern = <<>> \/ ~RegexTest(pattern, q) } |->
     entries[p]]

\* Mutant of InvalidatedEntries: the loop stops at the first match.
InvalidatedEntriesFirstMatch(entries, pattern) ==
  LET matching == { q \in DOMAIN entries : pattern = <<>> \/ RegexTest(pattern, q) }
      first == IF matching = {} THEN {} ELSE {CHOOSE q \in matching : TRUE}
  IN  IF pattern = <<>> THEN <<>>
      ELSE [p \in (DOMAIN entries) \ first |-> entries[p]]

\* The entries invalidateCache leaves: none without a pattern, else those
\* whose key the pattern does not match.
InvalidatedEntries(entries, pattern) ==
  IF pattern = <<>>
  THEN <<>>
  ELSE [p \in { q \in DOMAIN entries : ~RegexTest(pattern, q) } |-> entries[p]]

\* The last call: the method, its arguments (of getCachedFile the key
\* only), the last line it logged before it saved the manifest or, if it
\* does not, before it returned (without the names the line ends with),
\* what it returned, whether it raised, and whether it is a saveToCache
\* that repeats the call before it, arguments included.
Call(op, args, log, result, threw) ==
  [op |-> op, args |-> args, log |-> log, result |-> result, threw |-> threw,
   repeat |-> (op = "saveToCache" /\ last.op = op /\ last.args = args
               /\ ~last.threw /\ ~threw)]

Init ==
  /\ manifest = EmptyManifest
  /\ initialized = FALSE
  /\ dirExists \in BOOLEAN
  /\ writable = TRUE
  /\ manifestFile = <<>>
  /\ blobs = <<>>
  /\ last = [op |-> "constructor", args |-> <<>>, log |-> "", result |-> NULL,
             threw |-> FALSE, repeat |-> FALSE]
  /\ site = <<>>
  /\ build = [phase |-> "none"]
  /\ tasks = <<>>
  /\ saved = <<>>

\* new CompressionCacheManagerImpl(astroDir, logger): a new instance on the
\* same directory takes the place of the previous one (the next build).
Constructor ==
  /\ manifest' = EmptyManifest
  /\ initialized' = FALSE
  /\ last' = Call("constructor", <<>>, "", NULL, FALSE)
  /\ UNCHANGED <<dirExists, writable, manifestFile, blobs>>

\* mkdir(this.cacheDir, {recursive: true}) raises: the directory is not
\* there and the storage does not let it be made.
MkdirRaises == ~dirExists /\ ~writable

\* initialize(): mkdir is outside the try block; the try block loads
\* manifest.json; the catch block saves the manifest in memory, and what
\* saveManifest raises there is not caught.
InitializeCall ==
  IF MkdirRaises
  THEN /\ last' = Call("initialize", <<>>, "Initializing compression cache...",
                       NULL, TRUE)
       /\ UNCHANGED <<manifest, initialized, dirExists, writable, manifestFile,
                      blobs>>
  ELSE /\ dirExists' = (dirExists \/ writable)
       /\ manifest' = LoadManifest(manifest, manifestFile)
       /\ IF manifestFile # <<>> /\ Parses(manifestFile[1])
          THEN /\ manifestFile' = manifestFile
               /\ initialized' = TRUE
               /\ last' = Call("initialize", <<>>, "Loaded existing manifest.",
                               NULL, FALSE)
          ELSE /\ manifestFile' = IF dirExists' /\ writable
                                  THEN SaveManifest(manifest')
                                  ELSE manifestFile
               /\ initialized' = (initialized \/ (dirExists' /\ writable))
               /\ last' = Call("initialize", <<>>,
                               "No existing cache manifest found, using default empty one.",
                               NULL, ~(dirExists' /\ writable))
       /\ UNCHANGED <<writable, blobs>>

\* initialize(), which the integration calls once on each new instance,
\* before any other method.
Initialize == ~initialized /\ InitializeCall

\* getCachedFile(originalPath, sourceHash, settings)
GetCachedFile(originalPath, sourceHash, settings) ==
  LET out == GetCachedFileOutcome(manifest, blobs, originalPath, sourceHash, settings)
  IN  /\ initialized
      /\ IF out.heal
         THEN /\ manifest' = DeleteEntry(manifest, originalPath)
              /\ manifestFile' = IF CanWrite(ManifestPath)
                                 THEN SaveManifest(manifest')
                                 ELSE manifestFile
              /\ last' = Call("getCachedFile", <<originalPath>>, out.log,
                              out.result, ~CanWrite(ManifestPath))
         ELSE /\ last' = Call("getCachedFile", <<originalPath>>, out.log,
                              out.result, out.threw)
              /\ UNCHANGED <<manifest, manifestFile>>
      /\ UNCHANGED <<initialized, dirExists, writable, blobs>>

\* saveToCache(originalPath, originalContent, compressedContent, settings),
\* with now the value of Date.now()
SaveToCache(originalPath, originalContent, compressedContent, settings, now) ==
  LET args == <<originalPath, originalContent, compressedContent, settings>>
      entry == NewEntry(originalPath, originalContent, compressedContent,
                        settings, now)
  IN  /\ initialized
      /\ IF ~CanWrite(entry.compressedPath)
         THEN /\ last' = Call("saveToCache", args, "Saving to cache", NULL, TRUE)
              /\ UNCHANGED <<manifest, manifestFile, blobs>>
         ELSE /\ blobs' = WriteBlob(blobs, entry.compressedPath, compressedContent)
              /\ IF HasEntries(manifest)
                 THEN /\ manifest' = PutEntry(manifest, originalPath, entry)
                      /\ manifestFile' = SaveManifest(manifest')
                 ELSE UNCHANGED <<manifest, manifestFile>>
              /\ last' = Call("saveToCache", args, "Compressed file saved",
                              NULL, ~HasEntries(manifest))
      /\ UNCHANGED <<initialized, dirExists, writable>>

\* The manifest in memory after the if/else of invalidateCache, when it
\* does not raise: this.manifest.entries = {}, or the loop over the keys of
\* this.manifest.entries (no key when there is no such member).
InvalidatedManifest(m, pattern) ==
  IF HasEntries(m) /\ "version" \in DOMAIN m
  THEN [m EXCEPT !.entries = InvalidatedEntries(m.entries, pattern)]
  ELSE IF HasEntries(m)
  THEN [entries |-> InvalidatedEntries(m.entries, pattern)]
  ELSE IF pattern = <<>> THEN [entries |-> <<>>]
  ELSE m

\* The if/else of invalidateCache raises: new RegExp(pattern) a SyntaxError,
\* or a manifest that is null a TypeError.
InvalidateRaises(m, pattern) ==
  \/ pattern # <<>> /\ ~RegexValid(pattern)
  \/ m = JSONNull

\* invalidateCache(pattern)
InvalidateCache(pattern) ==
  /\ initialized
  /\ IF InvalidateRaises(manifest, pattern)
     THEN /\ last' = Call("invalidateCache", <<pattern>>,
                          IF pattern = <<>> THEN "Invalidating entire cache."
                          ELSE "Invalidating cache with pattern",
                          NULL, TRUE)
          /\ UNCHANGED <<manifest, manifestFile>>
     ELSE /\ manifest' = InvalidatedManifest(manifest, pattern)
          /\ manifestFile' = IF CanWrite(ManifestPath)
                             THEN SaveManifest(manifest')
                             ELSE manifestFile
          /\ last' = Call("invalidateCache", <<pattern>>,
                          IF pattern = <<>> THEN "Invalidating entire cache."
                          ELSE IF manifest' # manifest
                          THEN "Cache entry invalidated"
                          ELSE "Invalidating cache with pattern",
                          NULL, ~CanWrite(ManifestPath))
  /\ UNCHANGED <<initialized, dirExists, writable, blobs>>

\* A blob file of the cache directory is deleted from outside.
ExternalDeleteBlob(file) ==
  /\ file \in DOMAIN blobs
  /\ blobs' = [f \in (DOMAIN blobs) \ {file} |-> blobs[f]]
  /\ last' = Call("external", <<file>>, "", NULL, FALSE)
  /\ UNCHANGED <<manifest, initialized, dirExists, writable, manifestFile>>

Next ==
  \/ Constructor /\ UNCHANGED <<driver, saved>>
  \/ Initialize /\ UNCHANGED <<driver, saved>>
  \/ \E p \in Paths, h \in Hashes, s \in SettingsValues :
        GetCachedFile(p, h, s) /\ UNCHANGED <<driver, saved>>
  \/ \E p \in Paths, b \in Originals, c \in Compresseds, s \in SettingsValues,
        t \in Times : SaveToCache(p, b, c, s, t) /\ UNCHANGED <<driver, saved>>
  \/ \E pattern \in Patterns : InvalidateCache(pattern) /\ UNCHANGED <<driver, saved>>
  \/ \E file \in DOMAIN blobs : ExternalDeleteBlob(file) /\ UNCHANGED <<driver, saved>>

Spec == Init /\ [][Next]_vars

(***************************************************************************)
(* The manager as a class, on a storage that may fail and a directory      *)
(* that others may write to                                                *)
(***************************************************************************)
\* The contents put into manifest.json from outside.
ForeignContents == { InvalidJSON, Unreadable, JSONNull, JSONEmptyObject }

\* The patterns given to invalidateCache here: none, two that are regular
\* expressions and one that is not.
FaultPatterns == { <<>>, <<"^", "a", "/">>, <<"q">>, <<"(">> }

\* The settings given here: {a:1,b:Infinity}.
FaultSettings == { << <<"a", "1">>, <<"b", "Infinity">> >> }

\* manifest.json is replaced from outside.
ExternalWriteManifest(content) ==
  /\ dirExists
  /\ manifestFile # <<content>>
  /\ manifestFile' = <<content>>
  /\ last' = Call("external", <<>>, "", NULL, FALSE)
  /\ UNCHANGED <<manifest, initialized, dirExists, writable, blobs>>

\* manifest.json is deleted from outside.
ExternalDeleteManifest ==
  /\ manifestFile # <<>>
  /\ manifestFile' = <<>>
  /\ last' = Call("external", <<>>, "", NULL, FALSE)
  /\ UNCHANGED <<manifest, initialized, dirExists, writable, blobs>>

\* manifest.json is the one a release of the integration with another cache
\* version has written: the same entries under another version.
ExternalOtherVersion ==
  /\ manifestFile # <<>>
  /\ HasEntries(manifestFile[1])
  /\ "version" \in DOMAIN manifestFile[1]
  /\ manifestFile[1].version = EmptyManifest.version
  /\ manifestFile' = << [manifestFile[1] EXCEPT !.version = "0"] >>
  /\ last' = Call("external", <<>>, "", NULL, FALSE)
  /\ UNCHANGED <<manifest, initialized, dirExists, writable, blobs>>

\* The storage stops taking writes (disk full, permission denied), or takes
\* them again.
StorageChange ==
  /\ writable' = ~writable
  /\ last' = Call("external", <<>>, "", NULL, FALSE)
  /\ UNCHANGED <<manifest, initialized, dirExists, manifestFile, blobs>>

NextFaults ==
  \/ Constructor /\ UNCHANGED <<driver, saved>>
  \/ InitializeCall /\ UNCHANGED <<driver, saved>>
  \/ \E p \in Paths, h \in Hashes, s \in FaultSettings :
        GetCachedFile(p, h, s) /\ UNCHANGED <<driver, saved>>
  \/ \E p \in Paths, s \in FaultSettings :
        SaveToCache(p, <<1, 1>>, <<7>>, s, 0) /\ UNCHANGED <<driver, saved>>
  \/ \E pattern \in FaultPatterns : InvalidateCache(pattern) /\ UNCHANGED <<driver, saved>>
  \/ \E file \in DOMAIN blobs : ExternalDeleteBlob(file) /\ UNCHANGED <<driver, saved>>
  \/ \E content \in ForeignContents :
        ExternalWriteManifest(content) /\ UNCHANGED <<driver, saved>>
  \/ ExternalDeleteManifest /\ UNCHANGED <<driver, saved>>
  \/ ExternalOtherVersion /\ UNCHANGED <<driver, saved>>
  \/ StorageChange /\ UNCHANGED <<driver, saved>>

SpecFaults == Init /\ [][NextFaults]_vars

(***************************************************************************)
(* The manager called with keys of every shape                             *)
(***************************************************************************)
\* Original paths: two with the same extension, one with another, one
\* without an extension, and one without an extension whose directory name
\* has a dot.
KeyPaths ==
  { <<"a", "/", "x", ".", "p", "n", "g">>,
    <<"b", "/", "z", ".", "p", "n", "g">>,
    <<"b", "/", "z", ".", "j", "p", "g">>,
    <<"a", "/", "x">>,
    <<"a", ".", "d", "/", "x">> }

\* The original bytes given here: the same for every key.
KeyOriginal == <<1, 1>>

\* The settings given here: {a:1,b:Infinity} and {a:1,b:null}.
KeySettings ==
  { << <<"a", "1">>, <<"b", "Infinity">> >>,
    << <<"a", "1">>, <<"b", "null">> >> }

\* The history after a saveToCache for originalPath: the bytes given to it
\* once it has returned.
Saved(originalPath, compressedContent) ==
  IF last'.threw THEN saved
  ELSE [p \in (DOMAIN saved) \cup {originalPath} |->
          IF p = originalPath THEN compressedContent ELSE saved[p]]

NextKeys ==
  \/ Initialize /\ UNCHANGED <<driver, saved>>
  \/ \E p \in KeyPaths, h \in Hashes, s \in KeySettings :
        GetCachedFile(p, h, s) /\ UNCHANGED <<driver, saved>>
  \/ \E p \in KeyPaths, c \in Compresseds, s \in KeySettings :
        /\ SaveToCache(p, KeyOriginal, c, s, 0)
        /\ saved' = Saved(p, c)
        /\ UNCHANGED driver
  \/ InvalidateCache(<<"^", "a", "/">>) /\ UNCHANGED <<driver, saved>>

SpecKeys == Init /\ [][NextKeys]_vars

(***************************************************************************)
(* The manager with calls that interleave at their awaits                  *)
(***************************************************************************)
\* The calls of a behaviour are numbered 1..MaxCalls.
MaxCalls == 3

\* The compressed bytes given here.
CallCompressed == <<7>>

\* The settings given here.
CallSettings == << <<"a", "1">> >>

\* A call of getCachedFile or saveToCache and where it stands: at the await
\* of stat, of the writeFile of the blob file or of the writeFile of
\* manifest.json, or returned.  entry is the const entry of the method,
\* found what stat gave, snapshot the text given to writeFile.
NewCall(op, pc, path, content, entry) ==
  [op |-> op, pc |-> pc, path |-> path, content |-> content, entry |-> entry,
   found |-> FALSE, snapshot |-> <<>>]

\* The number of the next call.
NextCall == Cardinality(DOMAIN tasks) + 1

\* tasks with the call number id set to call.
WithCall(id, call) ==
  [i \in (DOMAIN tasks) \cup {id} |-> IF i = id THEN call ELSE tasks[i]]

\* getCachedFile is called and runs to await stat(entry.compressedPath), or
\* returns null before it.
CallGetCachedFile(originalPath, sourceHash, settings) ==
  LET out == GetCachedFileOutcome(manifest, blobs, originalPath, sourceHash, settings)
      awaits == out.log \in {"Cache hit, file exists.",
                             "Cached file does not exist, removing entry."}
  IN  /\ initialized
      /\ NextCall <= MaxCalls
      /\ tasks' = WithCall(NextCall,
                     NewCall("getCachedFile", IF awaits THEN "stat" ELSE "returned",
                             originalPath, <<>>,
                             IF awaits THEN <<manifest.entries[originalPath]>>
                             ELSE <<>>))
      /\ UNCHANGED <<manifest, initialized, dirExists, writable, manifestFile,
                     blobs, last, site, build, saved>>

\* stat settles: it resolves when the file is there and rejects when not.
StatSettles(id) ==
  /\ tasks[id].pc = "stat"
  /\ tasks' = [tasks EXCEPT
                 ![id].pc = "statted",
                 ![id].found = (tasks[id].entry[1].compressedPath \in DOMAIN blobs)]
  /\ UNCHANGED <<manifest, initialized, dirExists, writable, manifestFile,
                 blobs, last, site, build, saved>>

\* getCachedFile goes on after stat: it returns the entry, or the catch
\* block deletes this.manifest.entries[originalPath] and calls
\* saveManifest, which runs to its await of writeFile.
AfterStat(id) ==
  /\ tasks[id].pc = "statted"
  /\ IF tasks[id].found
     THEN /\ tasks' = [tasks EXCEPT ![id].pc = "returned"]
          /\ manifest' = manifest
     ELSE /\ manifest' = DeleteEntry(manifest, tasks[id].path)
          /\ tasks' = [tasks EXCEPT ![id].pc = "flush",
                                    ![id].snapshot = SaveManifest(manifest')]
  /\ UNCHANGED <<initialized, dirExists, writable, manifestFile, blobs, last,
                 site, build, saved>>

\* saveToCache is called and runs to await writeFile(cachedFilePath, ...).
CallSaveToCache(originalPath, originalContent) ==
  /\ initialized
  /\ NextCall <= MaxCalls
  /\ tasks' = WithCall(NextCall,
                 NewCall("saveToCache", "blob", originalPath, originalContent, <<>>))
  /\ UNCHANGED <<manifest, initialized, dirExists, writable, manifestFile,
                 blobs, last, site, build, saved>>

\* saveToCache goes on after the write of the blob file: it makes the
\* entry, puts it into this.manifest.entries and calls saveManifest, which
\* runs to its await of writeFile.
AfterWriteBlob(id) ==
  LET entry == NewEntry(tasks[id].path, tasks[id].content, CallCompressed,
                        CallSettings, 0)
  IN  /\ tasks[id].pc = "blob"
      /\ blobs' = WriteBlob(blobs, entry.compressedPath, CallCompressed)
      /\ manifest' = PutEntry(manifest, tasks[id].path, entry)
      /\ tasks' = [tasks EXCEPT ![id].pc = "flush",
                                ![id].entry = <<entry>>,
                                ![id].snapshot = SaveManifest(manifest')]
      /\ UNCHANGED <<initialized, dirExists, writable, manifestFile, last,
                     site, build, saved>>

\* The write of manifest.json of a call has landed, and the call returns.
AfterWriteManifest(id) ==
  /\ tasks[id].pc = "flush"
  /\ manifestFile' = tasks[id].snapshot
  /\ tasks' = [tasks EXCEPT ![id].pc = "returned"]
  /\ UNCHANGED <<manifest, initialized, dirExists, writable, blobs, last,
                 site, build, saved>>

NextCalls ==
  \/ Initialize /\ UNCHANGED <<driver, saved>>
  \/ \E p \in Paths, h \in Hashes :
        CallGetCachedFile(p, h, CallSettings)
  \/ \E id \in DOMAIN tasks : StatSettles(id)
  \/ \E id \in DOMAIN tasks : AfterStat(id)
  \/ \E p \in Paths, b \in Originals : CallSaveToCache(p, b)
  \/ \E id \in DOMAIN tasks : AfterWriteBlob(id)
  \/ \E id \in DOMAIN tasks : AfterWriteManifest(id)
  \/ \E file \in DOMAIN blobs : ExternalDeleteBlob(file) /\ UNCHANGED <<driver, saved>>

SpecCalls == Init /\ [][NextCalls]_vars

(***************************************************************************)
(* Properties                                                              *)
(***************************************************************************)
\* What getCachedFile(p, h, s) returns when it is called in this state.
Lookup(p, h, s) == GetCachedFileOutcome(manifest, blobs, p, h, s).result

\* The manifest a new manager on this directory holds after initialize().
ReloadedManifest == LoadManifest(EmptyManifest, manifestFile)

\* The state right after saveToCache has returned.
AfterSave == last.op = "saveToCache" /\ ~last.threw

\* Two settings objects with the same members, in whatever order.
StructurallyEqual(s1, s2) ==
  { s1[i] : i \in DOMAIN s1 } = { s2[i] : i \in DOMAIN s2 }

\* C1. Round trip: once saveToCache(p, B, C, S) has returned, getCachedFile(p,
\* hash(B), S) returns an entry, and the file at its compressedPath holds C.
C1_RoundTrip ==
  AfterSave =>
    LET r == Lookup(last.args[1], SHA256(last.args[2]), last.args[4])
    IN  /\ r # NULL
        /\ r[1].compressedPath \in DOMAIN blobs
        /\ blobs[r[1].compressedPath] = last.args[3]

\* saveToCache has returned, over a blob file that another key shares.
C1_Witness ==
  /\ AfterSave
  /\ \E q \in DOMAIN manifest.entries :
       /\ q # last.args[1]
       /\ manifest.entries[q].compressedPath = manifest.entries[last.args[1]].compressedPath

C3_SourceHashSensitivity ==
  /\ AfterSave =>
       \A b2 \in Originals \ {last.args[2]}, s \in SettingsValues :
         Lookup(last.args[1], SHA256(b2), s) = NULL
  /\ \A p \in DOMAIN manifest.entries, b1 \in Originals, b2 \in Originals,
        s \in SettingsValues :
       (manifest.entries[p].sourceHash = SHA256(b1) /\ b2 # b1)
         => Lookup(p, SHA256(b2), s) = NULL

\* getCachedFile has found an entry with another source hash.
C3_Witness ==
  /\ last.op = "getCachedFile"
  /\ last.log = "Source hash mismatch."
  /\ last.result = NULL

\* C4. Settings sensitivity, as claimed: once p is cached with settings S1,
\* getCachedFile(p, hash(B), S2) returns null for every S2 structurally
\* different from S1.
C4_SettingsSensitivity ==
  AfterSave =>
    \A s2 \in SettingsValues :
      ~StructurallyEqual(s2, last.args[4])
        => Lookup(last.args[1], SHA256(last.args[2]), s2) = NULL

\* C5. Dangling self-heal: when the entry of p has the hash and the settings
\* asked for and its blob file is gone, getCachedFile returns null and removes
\* the entry; after it did, without raising, neither the manifest in memory
\* nor the manifest a new manager loads has an entry for p.
C5_DanglingSelfHeal ==
  /\ \A p \in DOMAIN manifest.entries, h \in Hashes, s \in SettingsValues :
       LET e == manifest.entries[p]
           out == GetCachedFileOutcome(manifest, blobs, p, h, s)
       IN  ( /\ e.sourceHash = h
             /\ StringifySettings(e.settings) = StringifySettings(s)
             /\ e.compressedPath \notin DOMAIN blobs )
             => (out.result = NULL /\ out.heal)
  /\ (last.op = "getCachedFile"
      /\ last.log = "Cached file does not exist, removing entry.")
       => /\ ~last.threw
          /\ last.result = NULL
          /\ last.args[1] \notin DOMAIN manifest.entries
          /\ last.args[1] \notin DOMAIN ReloadedManifest.entries

\* getCachedFile has removed a dangling entry and another entry is left.
C5_Witness ==
  /\ last.op = "getCachedFile"
  /\ last.log = "Cached file does not exist, removing entry."
  /\ manifest.entries # <<>>

\* Two answers of getCachedFile that are the same as JSON: both null, or
\* entries with the same fields.
SameAnswer(r1, r2) ==
  IF r1 = NULL \/ r2 = NULL THEN r1 = r2
  ELSE StringifyEntry(r1[1]) = StringifyEntry(r2[1])

\* C6. Persistence across instances: whatever calls have completed on a
\* manager, a new manager on the same directory answers, after its
\* initialize(), every getCachedFile(p, h, S) as that manager does.
C6_PersistenceAcrossInstances ==
  initialized =>
    \A p \in Paths, h \in Hashes, s \in SettingsValues :
      SameAnswer(Lookup(p, h, s),
                 GetCachedFileOutcome(ReloadedManifest, blobs, p, h, s).result)

\* A manager holds an entry that a new manager would load with another
\* settings object, and getCachedFile returns that entry.
C6_Witness ==
  /\ initialized
  /\ manifest # ReloadedManifest
  /\ \E p \in Paths, h \in Hashes, s \in SettingsValues : Lookup(p, h, s) # NULL

\* C7. Cold start: initialize() on a cache directory that does not exist or
\* holds no manifest.json creates the directory and writes the empty manifest
\* {version: "1", entries: {}} to manifest.json, which is also the manifest in
\* memory.
C7_ColdStart ==
  [][ (last'.op = "initialize" /\ (~dirExists \/ manifestFile = <<>>))
        => /\ dirExists'
           /\ manifestFile' = <<[version |-> "1", entries |-> <<>>]>>
           /\ manifest' = [version |-> "1", entries |-> <<>>] ]_vars

\* initialize() has found no manifest.json.
C7_Witness ==
  /\ last.op = "initialize"
  /\ last.log = "No existing cache manifest found, using default empty one."
  /\ initialized

\* No entry for p in memory nor in manifest.json.
Uncached(p) ==
  /\ p \notin DOMAIN manifest.entries
  /\ p \notin DOMAIN ReloadedManifest.entries

\* C8. Full invalidation: after invalidateCache() without a pattern the
\* manifest has no entry, in memory and in manifest.json, and getCachedFile
\* returns null for every key, hash and settings; a key without an entry gets
\* one only by a saveToCache for that key.
C8_FullInvalidation ==
  [][ /\ (last'.op = "invalidateCache" /\ last'.args = << <<>> >> /\ ~last'.threw)
         => /\ manifest'.entries = <<>>
            /\ \A p \in Paths : Uncached(p)'
            /\ \A p \in Paths, h \in Hashes, s \in SettingsValues :
                 GetCachedFileOutcome(manifest', blobs', p, h, s).result = NULL
      /\ \A p \in Paths :
           (Uncached(p) /\ ~Uncached(p)')
             => (last'.op = "saveToCache" /\ last'.args[1] = p) ]_vars

\* invalidateCache() has returned and blob files of earlier saves exist.
C8_Witness ==
  /\ last.op = "invalidateCache"
  /\ last.args = << <<>> >>
  /\ ~last.threw
  /\ Cardinality(DOMAIN blobs) = 2

\* C9. Pattern invalidation: invalidateCache(pattern) removes the entries
\* whose key the pattern matches and no other; the other entries are
\* unchanged, in memory and in manifest.json, and getCachedFile answers for
\* them as before.  With "^a/", a/x.png goes and b/z.png stays.
C9_PatternInvalidation ==
  [][ (last'.op = "invalidateCache" /\ last'.args # << <<>> >> /\ ~last'.threw)
        => LET pattern == last'.args[1]
               kept == { q \in DOMAIN manifest.entries : ~RegexTest(pattern, q) }
           IN  /\ DOMAIN manifest'.entries = kept
               /\ DOMAIN ReloadedManifest'.entries = kept
               /\ \A q \in kept :
                    /\ manifest'.entries[q] = manifest.entries[q]
                    /\ \A h \in Hashes, s \in SettingsValues :
                         GetCachedFileOutcome(manifest', blobs', q, h, s).result
                           = Lookup(q, h, s)
               /\ pattern = <<"^", "a", "/">>
                    => /\ <<"a", "/", "x", ".", "p", "n", "g">>
                            \notin DOMAIN manifest'.entries
                       /\ <<"b", "/", "z", ".", "p", "n", "g">>
                            \in DOMAIN manifest.entries
                          => <<"b", "/", "z", ".", "p", "n", "g">>
                               \in DOMAIN manifest'.entries ]_vars

\* invalidateCache("^a/") has removed an entry and the entry of b/z.png is
\* left, and getCachedFile returns it.
C9_Witness ==
  /\ last.op = "invalidateCache"
  /\ last.args = << <<"^", "a", "/">> >>
  /\ last.log = "Cache entry invalidated"
  /\ DOMAIN manifest.entries = { <<"b", "/", "z", ".", "p", "n", "g">> }
  /\ \E h \in Hashes, s \in SettingsValues :
       Lookup(<<"b", "/", "z", ".", "p", "n", "g">>, h, s) # NULL

\* C10. Idempotent re-save: a saveToCache that repeats the call before it,
\* with the same (path, B, C, S), leaves the keys of the manifest and the blob
\* files with their contents as they are, and changes at most the timestamp
\* of the entry of path, in memory and in manifest.json.
C10_IdempotentResave ==
  [][ ( /\ last.op = "saveToCache" /\ ~last.threw
        /\ last'.op = "saveToCache" /\ ~last'.threw
        /\ last'.args = last.args )
        => LET p == last.args[1]
               t == manifest'.entries[p].timestamp
           IN  /\ blobs' = blobs
               /\ manifest' = [manifest EXCEPT !.entries[p].timestamp = t]
               /\ manifestFile' =
                    << [manifestFile[1] EXCEPT !.entries[p].timestamp = t] >>
               /\ Cardinality({ f \in DOMAIN blobs' :
                                  f = CachedFilePath(p, SHA256(last.args[2])) }) = 1 ]_vars

\* saveToCache has returned a second time for the same arguments, over a
\* blob file that another key shares.
C10_Witness ==
  /\ last.op = "saveToCache"
  /\ last.repeat
  /\ Cardinality(DOMAIN manifest.entries) = 2
  /\ Cardinality(DOMAIN blobs) = 1

(***************************************************************************)
(* Properties of the manager as a class (SpecFaults)                       *)
(***************************************************************************)
\* manifest.json cannot be loaded: it is absent, unreadable or not JSON.
LoadFails ==
  \/ manifestFile = <<>>
  \/ manifestFile[1] \in { [invalid |-> "{"], [unreadable |-> "EACCES"] }

\* C11. Load-failure recovery, as claimed: in every state in which
\* initialize() is called, if manifest.json is absent, unreadable or not JSON,
\* then after initialize() has returned the manifest in memory is the empty
\* default and manifest.json holds that empty manifest.
C11_LoadFailureRecovery ==
  [][ (last'.op = "initialize" /\ ~last'.threw /\ LoadFails)
        => /\ manifest' = [version |-> "1", entries |-> <<>>]
           /\ manifestFile' = <<[version |-> "1", entries |-> <<>>]>> ]_vars

\* C12, as claimed.  initialize() never raises: whether the directory cannot
\* be made, manifest.json cannot be read or parsed, or the manifest cannot
\* be written, the call returns and a new manager starts with an empty cache.
C12_InitializeNeverRaises ==
  [][ last'.op = "initialize"
        => /\ ~last'.threw
           /\ (~initialized /\ (MkdirRaises \/ LoadFails))
                => manifest' = [version |-> "1", entries |-> <<>>] ]_vars

\* C12, amended.  initialize() raises exactly when the directory cannot be
\* made or when manifest.json cannot be loaded and the manifest cannot be
\* written; it then leaves the manifest in memory and manifest.json as they
\* were.  A read or parse failure alone is not raised: the call returns, the
\* directory exists, and a new manager starts with the empty manifest, which
\* is also written to manifest.json.
C12_InitializeRaisesOnStorageFailure ==
  [][ last'.op = "initialize"
        => /\ last'.threw <=> (~writable /\ (~dirExists \/ LoadFails))
           /\ dirExists' = (dirExists \/ writable)
           /\ last'.threw => (manifest' = manifest /\ manifestFile' = manifestFile)
           /\ (~last'.threw /\ ~initialized /\ LoadFails)
                => /\ manifest' = [version |-> "1", entries |-> <<>>]
                   /\ manifestFile' = <<[version |-> "1", entries |-> <<>>]>> ]_vars

\* initialize() has raised from its catch block over a manifest.json that is
\* there and cannot be loaded.
C12_Witness ==
  /\ last.op = "initialize"
  /\ last.threw
  /\ last.log = "No existing cache manifest found, using default empty one."
  /\ manifestFile # <<>>

\* C13. A corrupted or foreign manifest never fails a build, as claimed:
\* whatever manifest.json holds, after initialize() every getCachedFile call
\* returns an entry or null and does not raise (the storage taking writes).
C13_ForeignManifestNeverRaises ==
  [][ (last'.op = "getCachedFile" /\ writable) => ~last'.threw ]_vars

\* C14. Invalid invalidation pattern: invalidateCache(pattern) with a pattern
\* that is not a regular expression, as "(" is not, raises, removes no entry
\* from the manifest in memory and does not write manifest.json.
C14_InvalidPattern ==
  [][ (last'.op = "invalidateCache" /\ last'.args = << <<"(">> >>)
        => /\ last'.threw
           /\ manifest' = manifest
           /\ manifestFile' = manifestFile
           /\ blobs' = blobs ]_vars

\* invalidateCache("(") has raised on a manager that holds entries, while
\* manifest.json, deleted from outside, is still absent.
C14_Witness ==
  /\ last.op = "invalidateCache"
  /\ last.args = << <<"(">> >>
  /\ last.threw
  /\ HasEntries(manifest)
  /\ manifest.entries # <<>>
  /\ manifestFile = <<>>

\* manifest.json holds the serialization of the manifest in memory.
Flushed == manifestFile = <<StringifyJSON(manifest)>>

\* The call that has just returned has changed the manifest in memory or
\* is one that saves it: a saveToCache, an invalidateCache, a getCachedFile
\* that removed a dangling entry, an initialize() that did not load.
MutatingCall(l) ==
  \/ l.op \in {"saveToCache", "invalidateCache"}
  \/ l.op = "getCachedFile" /\ l.log = "Cached file does not exist, removing entry."
  \/ l.op = "initialize"
       /\ l.log = "No existing cache manifest found, using default empty one."

\* C15. Manifest flushed after every mutation: after every call that has
\* returned without raising, manifest.json holds the serialization of the
\* manifest in memory, if the call loaded or changed the manifest or if
\* manifest.json held it before the call; invalidateCache writes the manifest
\* also when no entry matched.
C15_ManifestFlushed ==
  [][ (last'.op \in {"initialize", "getCachedFile", "saveToCache", "invalidateCache"}
       /\ ~last'.threw)
        => /\ (MutatingCall(last') \/ last'.op = "initialize" \/ Flushed) => Flushed'
           /\ (last'.op = "invalidateCache"
               /\ last'.log = "Invalidating cache with pattern")
                => (manifest' = manifest /\ Flushed') ]_vars

\* invalidateCache(pattern) has returned, no entry matched, and manifest.json,
\* which held other content before, holds the entries of the manifest.
C15_Witness ==
  /\ last.op = "invalidateCache"
  /\ last.log = "Invalidating cache with pattern"
  /\ ~last.threw
  /\ HasEntries(manifest)
  /\ manifest.entries # <<>>
  /\ Flushed

\* C19. Cache version, as claimed: the entries of a manifest.json whose
\* version is not the one the manager writes ("1") are not served as hits
\* after initialize().
C19_VersionInvalidation ==
  [][ (last.op = "initialize" /\ last.log = "Loaded existing manifest."
       /\ HasEntries(manifest) /\ "version" \in DOMAIN manifest
       /\ manifest.version # "1" /\ last'.op = "getCachedFile")
        => last'.result = NULL ]_vars

(***************************************************************************)
(* The integration: mysongCompress(options) and its hooks                  *)
(***************************************************************************)
\* The builds of one behaviour: at most MaxBuilds.
MaxBuilds == 2

\* The files a built site may have, in the order traverseDirectory finds
\* them.
PngFile == <<"a", "/", "x", ".", "p", "n", "g">>

JpgFile == <<"b", "/", "y", ".", "j", "p", "g">>

JsFile == <<"c", "/", "s", ".", "j", "s">>

Candidates == <<PngFile, JpgFile, JsFile>>

CandidateSet == { Candidates[i] : i \in DOMAIN Candidates }

\* traverseDirectory(dir): the files of the site, pushed to candidates.
TraverseDirectory(contents) ==
  SelectSeq(Candidates, LAMBDA c : c \in DOMAIN contents)

\* The two releases of the integration among the sources: the one without
\* options, whose loop awaits every call, and the one with options, whose
\* loop starts the compressions and awaits them together.
Versions == { "fixed", "configurable" }

\* defaultCacheDir, relative to the root of the project.
DefaultCacheDir == <<"node_modules", "/", ".astro", "/", ".mysong-compress">>

\* defaultConfig, and the options written into the release without options:
\* the cache switch, cache.cacheDir (<<>> when it is not given) and the
\* options of the png, of the jpeg and of the js compressor.
DefaultOptions ==
  [cache |-> TRUE, cacheDir |-> <<>>, png |-> 1, jpeg |-> 1, js |-> 1]

\* The options a site gives to mysongCompress: none, other options for one
\* compressor, the cache switched off, another cache directory.
OptionsValues ==
  { DefaultOptions,
    [DefaultOptions EXCEPT !.png = 2],
    [DefaultOptions EXCEPT !.jpeg = 2],
    [DefaultOptions EXCEPT !.cache = FALSE],
    [DefaultOptions EXCEPT !.cacheDir = <<"custom-cache-dir">>] }

\* Mutant of ManagerArgument: cache.cacheDir is not looked at.
ManagerArgumentDefault(b) ==
  IF b.version = "fixed" THEN <<".astro">> ELSE DefaultCacheDir

\* The directory given to new CompressionCacheManagerImpl(...), relative to
\* the root of the project: path.join(root, '.astro') in the release without
\* options, path.join(root, cache.cacheDir || defaultCacheDir) in the other.
ManagerArgument(b) ==
  IF b.version = "fixed" THEN <<".astro">>
  ELSE IF b.options.cacheDir # <<>> THEN b.options.cacheDir
  ELSE DefaultCacheDir

\* this.cacheDir of the manager of the release with options, whose code is
\* not among the sources: the directory it is given, in which its
\* manifest.json is, as the cache directory is specified.
CacheDirGiven(astroDir) == astroDir

\* this.cacheDir of the manager a build makes: join(astroDir,
\* '.compress-cache') in the release without options.  The paths of
\* manifest.json and of the blob files are written relative to CacheDir
\* whichever directory this is.
ManagerCacheDir(b) ==
  IF b.version = "fixed" THEN Join(ManagerArgument(b), <<".compress-cache">>)
  ELSE CacheDirGiven(ManagerArgument(b))

\* String.prototype.toLowerCase, on the letters of the extensions here.
ToLowerCase(str) ==
  [i \in DOMAIN str |->
     IF str[i] = "P" THEN "p" ELSE IF str[i] = "N" THEN "n"
     ELSE IF str[i] = "G" THEN "g" ELSE IF str[i] = "J" THEN "j"
     ELSE str[i]]

\* The characters of a string put together.
RECURSIVE Concat(_)
Concat(chars) == IF chars = <<>> THEN "" ELSE Head(chars) \o Concat(Tail(chars))

\* getUsedConfig(filePath): { config: compressionConfig[format] || null,
\* format }, where format is the extension of the path in lower case.
GetUsedConfig(options, filePath) ==
  LET format == Concat(Ext(ToLowerCase(filePath)))
      config == IF format \in DOMAIN options /\ format # "cache"
                THEN ToString(options[format]) ELSE "null"
  IN  << <<"config", config>>, <<"format", format>> >>

\* The settings the loop gives to getCachedFile for a candidate: {} in the
\* release without options, getUsedConfig(candidate) in the other.
LookupSettings(b, candidate) ==
  IF b.version = "fixed" THEN <<>> ELSE GetUsedConfig(b.options, candidate)

\* Mutant of ResultUsedConfig: the members in the other order.
ResultUsedConfigReordered(b, candidate) ==
  IF b.version = "fixed" THEN <<>>
  ELSE << GetUsedConfig(b.options, candidate)[2],
          GetUsedConfig(b.options, candidate)[1] >>

\* The settings given to saveToCache: {} in the release without options,
\* the usedConfig that processFile returns in the other.
ResultUsedConfig(b, candidate) ==
  IF b.version = "fixed" THEN <<>> ELSE GetUsedConfig(b.options, candidate)

\* The compressor of a file and its options: js for .js and .ts, and for an
\* image the format sharp finds in the file, jpeg for .jpg and .jpeg.
CompressorFormat(filePath) ==
  IF Concat(Ext(ToLowerCase(filePath))) \in {"js", "ts"} THEN "js"
  ELSE IF Concat(Ext(ToLowerCase(filePath))) \in {"jpg", "jpeg"} THEN "jpeg"
  ELSE "png"

\* The options the compressor of a candidate runs with.
CompressorOptions(b, candidate) == b.options[CompressorFormat(candidate)]

\* Bytes that are not a file of their format: a corrupt image.
Corrupt == <<0, 0>>

\* The bytes of a text that its minifier gives back as it is, and that has
\* a character of two bytes: one character, two bytes.
Minified == <<195, 169>>

\* The contents of the files of a site that has just been built: a site of
\* two images, and a site of one script.
SiteValues ==
  { [c \in {PngFile, JpgFile} |-> IF c = PngFile THEN x ELSE y] :
      x \in {<<1, 1>>, Corrupt}, y \in Originals }
  \cup { [c \in {JsFile} |-> Minified] }

\* The file is one that processFile reads as text and gives to a minifier.
IsText(filePath) == Concat(Ext(ToLowerCase(filePath))) \in {"js", "ts"}

\* The length of the string that the bytes are the UTF-8 text of: the bytes
\* 128..191 continue a character.
StringLength(bytes) ==
  Cardinality({ i \in DOMAIN bytes : bytes[i] < 128 \/ bytes[i] > 191 })

\* The length processFile compares with the size of the file in bytes:
\* compressedFile.length of a Buffer for an image, the length of the string
\* for a text.
ContentLength(filePath, output) ==
  IF IsText(filePath) THEN StringLength(output) ELSE Len(output)

\* The compressor raises on the content.
CompressorFails(content) == content = Corrupt

\* The compressor on a file of a site that has just been built: its output
\* is set by the content and the options, and is shorter than the content.
Compress(content, quality) == << content[1] * 10 + quality >>

\* What the compressor may give for a content it does not raise on: for a
\* minified text the text; for another file that has just been built
\* Compress(content, quality); for its own
\* output the same bytes or fewer, as a lossy encoder gives when it encodes
\* again what it has encoded.  The lengths stand for the sizes.
CompressOutputs(content, quality) ==
  IF content = Minified THEN { content }
  ELSE IF Len(content) = 2 THEN { Compress(content, quality) }
  ELSE { content, <<>> }

\* Mutant of CacheEnabled: the cache switch is not looked at.
CacheEnabledAlways(b) == TRUE

\* Mutant of CacheEnabled: no build has a cache.
CacheEnabledNever(b) == FALSE

\* compressionConfig.cache?.enabled; the release without options always
\* has a cache.
CacheEnabled(b) == b.version = "fixed" \/ b.options.cache

\* The entry saveToCache(originalPath, sourceHash, originalSize,
\* compressedContent, settings) of the release with options records: that
\* manager is given the hash and the length of the original where the other
\* computes them, and its code is not among the sources; it is taken to
\* record what it is given, as saveToCache is specified.
NewEntryOfHash(originalPath, sourceHash, originalSize, compressedContent, settings, now) ==
  [sourceHash |-> sourceHash,
   compressedPath |-> CachedFilePath(originalPath, sourceHash),
   timestamp |-> now,
   settings |-> settings,
   size |-> [original |-> originalSize,
             compressed |-> Len(compressedContent)]]

\* The entry the saveToCache call of the build records for a candidate.
BuildEntry(b, c, original, compressed) ==
  IF b.version = "fixed"
  THEN NewEntry(c, original, compressed, ResultUsedConfig(b, c), 0)
  ELSE NewEntryOfHash(c, SHA256(original), Len(original), compressed,
                      ResultUsedConfig(b, c), 0)

\* The work on a candidate that has not begun.
NoTask == [pc |-> "new", original |-> <<>>, snapshot |-> <<>>]

\* No candidate is between the start of its compression and the return of
\* its saveToCache.
Quiet == \A c \in DOMAIN tasks : tasks[c].pc \notin {"process", "blob", "flush"}

\* mysongCompress(options) is called and its hooks are run, on a site that
\* has just been built or again on the directory as the run before left it
\* (rerun), once the run before and all it started have ended.  The record
\* of the build keeps the options of the run before and the files that run
\* compressed.
NewBuild(version, options, contents) ==
  /\ build.phase \in {"none", "done", "failed"}
  /\ Quiet
  /\ IF build.phase = "none"
     THEN build' = [phase |-> "created", version |-> version, options |-> options,
                    todo |-> TraverseDirectory(contents), awaited |-> {},
                    count |-> 1,
                    previous |-> <<>>, cacheDir |-> <<>>, rerun |-> FALSE,
                    compressed |-> {}]
     ELSE /\ build.count < MaxBuilds
          /\ version = build.version
          /\ options.cacheDir = build.options.cacheDir
          /\ build' = [build EXCEPT
                         !.phase = "created", !.options = options,
                         !.todo = TraverseDirectory(contents), !.awaited = {},
                         !.count = @ + 1,
                         !.previous = <<build.options>>,
                         !.cacheDir = <<>>,
                         !.rerun = (contents = site),
                         !.compressed =
                           { c \in DOMAIN tasks :
                               tasks[c].pc \in {"saved", "processed"} }]
  /\ site' = contents
  /\ tasks' = [c \in DOMAIN contents |-> NoTask]
  /\ UNCHANGED <<manifest, initialized, dirExists, writable, manifestFile, blobs,
                 last>>

\* 'astro:config:done', with the cache: new CompressionCacheManagerImpl(...)
ConfigDoneConstruct ==
  /\ build.phase = "created"
  /\ CacheEnabled(build)
  /\ Constructor
  /\ build' = [build EXCEPT !.phase = "constructed",
                            !.cacheDir = ManagerCacheDir(build)]
  /\ UNCHANGED <<site, tasks>>

\* 'astro:config:done', with the cache: await cacheManager.initialize()
ConfigDoneInitialize ==
  /\ build.phase = "constructed"
  /\ Initialize
  /\ build' = [build EXCEPT !.phase = "loop"]
  /\ UNCHANGED <<site, tasks>>

\* 'astro:config:done', without the cache: no manager is made.
ConfigDoneNoCache ==
  /\ build.phase = "created"
  /\ ~CacheEnabled(build)
  /\ build' = [build EXCEPT !.phase = "loop"]
  /\ UNCHANGED <<manifest, initialized, dirExists, writable, manifestFile, blobs,
                 last, site, tasks>>

\* The loop of 'astro:build:done' may take its next candidate: the release
\* without options awaits all that it started for the one before.
LoopReady ==
  /\ build.phase = "loop"
  /\ build.todo # <<>>
  /\ build.version = "fixed" => Quiet

\* The loop, with the cache: the candidate is read and hashed and
\* getCachedFile is awaited; a hit writes the cached bytes over the
\* candidate, a miss starts processFile.
LoopLookup ==
  LET c == Head(build.todo)
  IN  /\ LoopReady
      /\ CacheEnabled(build)
      /\ GetCachedFile(c, SHA256(site[c]), LookupSettings(build, c))
      /\ build' = [build EXCEPT !.todo = Tail(@)]
      /\ IF last'.result # NULL
         THEN /\ site' = [site EXCEPT ![c] = blobs[last'.result[1].compressedPath]]
              /\ tasks' = [tasks EXCEPT ![c].pc = "hit"]
         ELSE /\ site' = site
              /\ tasks' = [tasks EXCEPT ![c] = [pc |-> "process",
                                                original |-> site[c],
                                                snapshot |-> <<>>]]

\* The loop, without the cache: processFile is started.
LoopNoCache ==
  LET c == Head(build.todo)
  IN  /\ LoopReady
      /\ ~CacheEnabled(build)
      /\ build' = [build EXCEPT !.todo = Tail(@)]
      /\ tasks' = [tasks EXCEPT ![c] = [pc |-> "process", original |-> site[c],
                                        snapshot |-> <<>>]]
      /\ UNCHANGED <<manifest, initialized, dirExists, writable, manifestFile,
                     blobs, last, site>>

\* processFile catches what the compressor raises: the release with options
\* has a try block around its compressors, the other has none.
Catches(b) == b.version = "configurable"

\* processFile(candidate) ends.  The compressor raises: processFile returns
\* processed: false where it catches, and raises where it does not, and
\* with it the hook that awaits it.  The compressor gives an output that is
\* not shorter: the file is left and processed is false.  The output is
\* shorter: it is written over the candidate and, with the cache,
\* saveToCache is called and runs up to its write of the blob file.
ProcessFile(c) ==
  /\ tasks[c].pc = "process"
  /\ build.phase \in {"loop", "wait"}
  /\ IF CompressorFails(site[c])
     THEN /\ site' = site
          /\ IF Catches(build)
             THEN /\ tasks' = [tasks EXCEPT ![c].pc = "skipped"]
                  /\ build' = build
             ELSE /\ tasks' = [tasks EXCEPT ![c].pc = "failed"]
                  /\ build' = [build EXCEPT !.phase = "failed"]
     ELSE \E output \in CompressOutputs(site[c], CompressorOptions(build, c)) :
            /\ build' = build
            /\ IF ContentLength(c, output) < Len(site[c])
               THEN /\ site' = [site EXCEPT ![c] = output]
                    /\ tasks' = [tasks EXCEPT ![c].pc =
                                   IF CacheEnabled(build) THEN "blob"
                                   ELSE "processed"]
               ELSE /\ site' = site
                    /\ tasks' = [tasks EXCEPT ![c].pc = "skipped"]
  /\ UNCHANGED <<manifest, initialized, dirExists, writable, manifestFile, blobs,
                 last>>

\* saveToCache: the write of the blob file has landed, the entry is put into
\* the manifest in memory and saveManifest() serializes that manifest and
\* starts the write of manifest.json.
SaveBlobWritten(c) ==
  LET entry == BuildEntry(build, c, tasks[c].original, site[c])
  IN  /\ tasks[c].pc = "blob"
      /\ blobs' = WriteBlob(blobs, entry.compressedPath, site[c])
      /\ manifest' = PutEntry(manifest, c, entry)
      /\ tasks' = [tasks EXCEPT ![c].pc = "flush",
                                ![c].snapshot = SaveManifest(manifest')]
      /\ UNCHANGED <<initialized, dirExists, writable, manifestFile, last, site,
                     build>>

\* saveToCache: the write of manifest.json has landed, and the call returns.
SaveManifestWritten(c) ==
  /\ tasks[c].pc = "flush"
  /\ manifestFile' = tasks[c].snapshot
  /\ tasks' = [tasks EXCEPT ![c].pc = "saved"]
  /\ last' = Call("saveToCache",
                  <<c, tasks[c].original, site[c], ResultUsedConfig(build, c)>>,
                  "Compressed file saved", NULL, FALSE)
  /\ UNCHANGED <<manifest, initialized, dirExists, writable, blobs, site, build>>

\* The loop has ended: the release with options calls Promise.all on the
\* promises it holds by then, those of processFile and of the saveToCache
\* calls already made.
AwaitAll ==
  /\ build.phase = "loop"
  /\ build.todo = <<>>
  /\ build.version = "fixed" => Quiet
  /\ build' = [build EXCEPT
                 !.phase = "wait",
                 !.awaited = { c \in DOMAIN tasks : tasks[c].pc \in {"blob", "flush"} }]
  /\ UNCHANGED <<manifest, initialized, dirExists, writable, manifestFile, blobs,
                 last, site, tasks>>

\* 'astro:build:done' returns: every processFile has ended, and so has
\* every saveToCache that Promise.all was given.
HookDone ==
  /\ build.phase = "wait"
  /\ \A c \in DOMAIN tasks : tasks[c].pc # "process"
  /\ \A c \in build.awaited : tasks[c].pc = "saved"
  /\ build' = [build EXCEPT !.phase = "done"]
  /\ UNCHANGED <<manifest, initialized, dirExists, writable, manifestFile, blobs,
                 last, site, tasks>>

NextBuild ==
  \/ \E version \in Versions, options \in OptionsValues,
        contents \in SiteValues \cup {site} :
        /\ contents = site => build.phase # "none"
        /\ version = "fixed" => options = DefaultOptions
        /\ NewBuild(version, options, contents)
        /\ UNCHANGED saved
  \/ ConfigDoneConstruct /\ UNCHANGED saved
  \/ ConfigDoneInitialize /\ UNCHANGED saved
  \/ ConfigDoneNoCache /\ UNCHANGED saved
  \/ LoopLookup /\ UNCHANGED saved
  \/ LoopNoCache /\ UNCHANGED saved
  \/ \E c \in DOMAIN tasks : ProcessFile(c) /\ UNCHANGED saved
  \/ \E c \in DOMAIN tasks : SaveBlobWritten(c) /\ UNCHANGED saved
  \/ \E c \in DOMAIN tasks : SaveManifestWritten(c) /\ UNCHANGED saved
  \/ AwaitAll /\ UNCHANGED saved
  \/ HookDone /\ UNCHANGED saved

SpecBuild == Init /\ [][NextBuild]_vars

(***************************************************************************)
(* One integration instance and the invocations of its build hook          *)
(***************************************************************************)
\* The invocations of 'astro:build:done' on the instance: at most
\* MaxInvocations.
MaxInvocations == 2

\* What traverseDirectory may find in an invocation.
FoundValues == { <<PngFile>>, <<PngFile, JpgFile>> }

\* No counter of the closure has been incremented: the let statements.
NoCounters == [cacheHits |-> 0, processedFiles |-> 0, skippedFiles |-> 0]

\* mysongCompress(...) is called: the closure of a new instance, with no
\* candidates and its counters at 0.  found is the number of files the
\* running invocation has found, next the place of the loop in candidates,
\* pending the places whose processFile has not ended.
NewIntegration(version) ==
  /\ build.phase = "none"
  /\ build' = [phase |-> "idle", version |-> version, candidates |-> <<>>,
               counters |-> NoCounters, found |-> 0, next |-> 1,
               pending |-> {}, invocations |-> 0]
  /\ UNCHANGED <<manifest, initialized, dirExists, writable, manifestFile,
                 blobs, last, site, tasks, saved>>

\* 'astro:build:done' is invoked: traverseDirectory pushes the files it
\* finds to candidates, which is never emptied, and the loop begins at the
\* first member of candidates.
BuildDoneBegins(files) ==
  /\ build.phase \in {"idle", "done", "failed"}
  /\ build.invocations < MaxInvocations
  /\ build' = [build EXCEPT !.phase = "loop",
                            !.candidates = @ \o files,
                            !.found = Len(files),
                            !.next = 1,
                            !.pending = {},
                            !.invocations = @ + 1]
  /\ UNCHANGED <<manifest, initialized, dirExists, writable, manifestFile,
                 blobs, last, site, tasks, saved>>

\* The loop may go on with its next candidate: the release without options
\* has awaited processFile and saveToCache of the one before.
LoopGoesOn ==
  /\ build.phase = "loop"
  /\ build.next <= Len(build.candidates)
  /\ build.version = "fixed" => build.pending = {}

\* The loop: getCachedFile returns an entry, cacheHits++ and continue.
LoopCacheHit ==
  /\ LoopGoesOn
  /\ build' = [build EXCEPT !.next = @ + 1, !.counters.cacheHits = @ + 1]
  /\ UNCHANGED <<manifest, initialized, dirExists, writable, manifestFile,
                 blobs, last, site, tasks, saved>>

\* The loop: no entry (or no cache), and processFile is started.
LoopProcessFile ==
  /\ LoopGoesOn
  /\ build' = [build EXCEPT !.next = @ + 1, !.pending = @ \cup {build.next}]
  /\ UNCHANGED <<manifest, initialized, dirExists, writable, manifestFile,
                 blobs, last, site, tasks, saved>>

\* processFile of the candidate at place i has returned: processedFiles++
\* if result.processed, else skippedFiles++.
ProcessFileReturns(i, processed) ==
  /\ i \in build.pending
  /\ build' = [build EXCEPT
                 !.pending = @ \ {i},
                 !.counters.processedFiles = IF processed THEN @ + 1 ELSE @,
                 !.counters.skippedFiles = IF processed THEN @ ELSE @ + 1]
  /\ UNCHANGED <<manifest, initialized, dirExists, writable, manifestFile,
                 blobs, last, site, tasks, saved>>

\* processFile of the candidate at place i raises, where it does not catch:
\* the hook raises.
ProcessFileRaises(i) ==
  /\ i \in build.pending
  /\ ~Catches(build)
  /\ build' = [build EXCEPT !.pending = {}, !.phase = "failed"]
  /\ UNCHANGED <<manifest, initialized, dirExists, writable, manifestFile,
                 blobs, last, site, tasks, saved>>

\* The loop has ended and every processFile has returned: the hook logs the
\* counters and returns.
BuildDoneReturns ==
  /\ build.phase = "loop"
  /\ build.next > Len(build.candidates)
  /\ build.pending = {}
  /\ build' = [build EXCEPT !.phase = "done"]
  /\ UNCHANGED <<manifest, initialized, dirExists, writable, manifestFile,
                 blobs, last, site, tasks, saved>>

\* The places of candidates whose processFile has been started and has not
\* ended: none before mysongCompress is called.
Pending == IF build.phase = "none" THEN {} ELSE build.pending

NextHooks ==
  \/ \E version \in Versions : NewIntegration(version)
  \/ \E files \in FoundValues : BuildDoneBegins(files)
  \/ LoopCacheHit
  \/ LoopProcessFile
  \/ \E i \in Pending, processed \in BOOLEAN : ProcessFileReturns(i, processed)
  \/ \E i \in Pending : ProcessFileRaises(i)
  \/ BuildDoneReturns

SpecHooks == Init /\ [][NextHooks]_vars

(***************************************************************************)
(* Properties of the integration (SpecBuild)                               *)
(***************************************************************************)
\* The candidate the loop has just looked up.
LookedUp == last'.args[1]

\* The step is a lookup of the loop: its getCachedFile has returned.
LoopLookupStep ==
  /\ build.phase = "loop"
  /\ CacheEnabled(build)
  /\ build.todo # <<>>
  /\ build' = [build EXCEPT !.todo = Tail(@)]
  /\ last'.op = "getCachedFile"
  /\ last'.args[1] = Head(build.todo)

\* C16. Lost update under concurrent writers: a saveToCache that has returned
\* has its entry in the manifest in memory, and when manifest.json lacks that
\* entry it holds the manifest another saveToCache serialized before this one
\* put its entry, and wrote after this one wrote its own; such a state, both
\* calls returned and manifest.json without the entry of one, is reached.
C16_LostUpdate ==
  \A c \in DOMAIN tasks :
    tasks[c].pc = "saved"
      => /\ c \in DOMAIN manifest.entries
         /\ c \in DOMAIN tasks[c].snapshot[1].entries
         /\ c \notin DOMAIN manifestFile[1].entries
              => \E d \in (DOMAIN tasks) \ {c} :
                   /\ tasks[d].pc = "saved"
                   /\ manifestFile = tasks[d].snapshot
                   /\ c \notin DOMAIN tasks[d].snapshot[1].entries

\* Two saveToCache calls for different keys have returned, the manifest in
\* memory holds both entries and manifest.json lacks one of them.
C16_Witness ==
  \E c \in DOMAIN tasks, d \in DOMAIN tasks :
    /\ c # d
    /\ tasks[c].pc = "saved"
    /\ tasks[d].pc = "saved"
    /\ c \in DOMAIN manifest.entries
    /\ d \in DOMAIN manifest.entries
    /\ c \notin DOMAIN manifestFile[1].entries
    /\ d \in DOMAIN manifestFile[1].entries

\* The entry saveToCache makes for a candidate of the build: the key
\* (path, hash, settings) under which the driver stores.
StoredUnder(entry, b, c, original) ==
  /\ entry.sourceHash = SHA256(original)
  /\ entry.settings = ResultUsedConfig(b, c)

\* C17. Repeated builds skip unchanged work: the key the driver looks up
\* equals the key under which it stored.  When a saveToCache of a build
\* returns, manifest.json holds the entry of its candidate under the hash of
\* the original bytes and the settings of the build, and in the release that
\* awaits each candidate the entry is there as long as the build lasts; and
\* in a build with the options of the build before it, a candidate whose
\* entry was stored under those settings and the hash of its present bytes
\* is served from the cache: the lookup is a hit, the cached bytes are
\* written over the candidate and nothing is stored again.
C17_RepeatedBuildHit ==
  [][ /\ ( /\ LoopLookupStep
           /\ build.previous = <<build.options>>
           /\ LookedUp \in DOMAIN manifest.entries
           /\ StoredUnder(manifest.entries[LookedUp], build, LookedUp,
                          site[LookedUp]) )
           => /\ last'.result = <<manifest.entries[LookedUp]>>
              /\ tasks'[LookedUp].pc = "hit"
              /\ site'[LookedUp]
                   = blobs[manifest.entries[LookedUp].compressedPath]
              /\ blobs' = blobs
              /\ manifest' = manifest
      /\ \A c \in DOMAIN tasks :
           (tasks[c].pc = "flush" /\ tasks'[c].pc = "saved")
             => /\ c \in DOMAIN manifestFile'[1].entries
                /\ StoredUnder(ParseJSON(manifestFile'[1]).entries[c], build, c,
                               tasks[c].original)
      /\ \A c \in DOMAIN tasks' :
           (build'.phase # "none" /\ build'.version = "fixed"
              /\ tasks'[c].pc = "saved")
             => /\ c \in DOMAIN manifestFile'[1].entries
                /\ manifestFile'[1].entries[c] = StringifyJSON(manifest').entries[c]
    ]_vars

\* In the second build of the release with options, under the options of the
\* first, both candidates have been served from the cache.
C17_Witness ==
  /\ build.phase = "done"
  /\ build.version = "configurable"
  /\ build.previous = <<build.options>>
  /\ \A c \in DOMAIN tasks : tasks[c].pc = "hit"

\* C18. Settings change, as claimed: when the options of the compressor of a
\* candidate differ from those of the build before, which had the cache, the
\* candidate is not served from the cache.
C18_SettingsChangeInvalidates ==
  [][ ( /\ LoopLookupStep
        /\ build.previous # <<>>
        /\ build.previous[1].cache
        /\ build.previous[1][CompressorFormat(LookedUp)]
             # build.options[CompressorFormat(LookedUp)] )
        => /\ last'.result = NULL
           /\ tasks'[LookedUp].pc = "process" ]_vars

\* The build runs the release with options, with cache.enabled = false.
CacheDisabled(b) ==
  b.phase # "none" /\ b.version = "configurable" /\ ~b.options.cache

\* C20. Cache disabled: in a build with cache.enabled = false no step makes or
\* initializes a manager or calls it, so that the cache directory,
\* manifest.json and the blob files stay as they were, absent if they were;
\* and when the hook returns every candidate has been handed to the
\* compressor: it holds an output of the compressor, or it is as it was.
C20_CacheDisabled ==
  [][ CacheDisabled(build')
        => /\ <<manifest, initialized, dirExists, manifestFile, blobs, last>>'
                = <<manifest, initialized, dirExists, manifestFile, blobs, last>>
           /\ build'.phase = "done"
                => \A c \in DOMAIN tasks' :
                     \/ /\ tasks'[c].pc = "processed"
                        /\ site'[c] \in CompressOutputs(tasks'[c].original,
                                          build'.options[CompressorFormat(c)])
                     \/ /\ tasks'[c].pc = "skipped"
                        /\ site'[c] = tasks'[c].original ]_vars

\* A build with cache.enabled = false has ended, and there is no cache
\* directory.
C20_Witness ==
  /\ CacheDisabled(build)
  /\ build.phase = "done"
  /\ ~dirExists
  /\ manifestFile = <<>>
  /\ \A c \in DOMAIN tasks : tasks[c].pc = "processed"

\* C22. Compressor failure handled gracefully: when the compressor raises on
\* a candidate the hook does not raise, the candidate is as it was and
\* nothing of the cache changes: no entry is stored for it.
C22_CompressorFailure ==
  [][ \A c \in DOMAIN tasks :
        ( /\ c \in DOMAIN tasks'
          /\ tasks[c].pc = "process"
          /\ tasks'[c].pc # "process"
          /\ CompressorFails(site[c]) )
        => /\ build'.phase # "failed"
           /\ tasks'[c].pc = "skipped"
           /\ site'[c] = site[c]
           /\ <<manifest, manifestFile, blobs>>' = <<manifest, manifestFile, blobs>>
    ]_vars

\* C23. Second run is a no-op on files: in a run of the hooks with the cache
\* and the options of the run before, over the directory as that run left
\* it, no file that the run before compressed is written.
C23_SecondRunNoOp ==
  [][ ( /\ build.phase # "none"
        /\ build'.count = build.count
        /\ build.rerun
        /\ CacheEnabled(build)
        /\ build.previous = <<build.options>> )
      => \A c \in build.compressed : site'[c] = site[c] ]_vars

\* The directory cache.cacheDir || defaultCacheDir names.
ConfiguredCacheDir(b) ==
  IF b.options.cacheDir # <<>> THEN b.options.cacheDir ELSE DefaultCacheDir

Basename(path) == SubSeq(path, LastIndexOf(path, "/") + 1, Len(path))

\* The extension of a path: what follows the last dot of its file name,
\* nothing when the file name has no dot.
Extname(path) ==
  IF LastIndexOf(Basename(path), ".") = 0 THEN <<>> ELSE Ext(Basename(path))

\* C24. Content-addressed sharing: after saveToCache(p, B, ...) the entry of
\* p and the entry of every other key with the hash of B and the extension of
\* p have the same compressedPath, one blob file is there for the two, and no
\* blob file is added when that one was there.
C24_ContentAddressedSharing ==
  [][ (last'.op = "saveToCache" /\ ~last'.threw)
        => \A q \in (DOMAIN manifest'.entries) \ {last'.args[1]} :
             ( /\ manifest'.entries[q].sourceHash = SHA256(last'.args[2])
               /\ Ext(q) = Ext(last'.args[1]) )
               => /\ manifest'.entries[q].compressedPath
                       = manifest'.entries[last'.args[1]].compressedPath
                  /\ Cardinality({ f \in DOMAIN blobs' :
                         f \in { manifest'.entries[q].compressedPath,
                                 manifest'.entries[last'.args[1]].compressedPath } }) = 1
                  /\ manifest'.entries[q].compressedPath \in DOMAIN blobs
                       => DOMAIN blobs' = DOMAIN blobs ]_vars

\* Two keys with the same bytes and the same extension have entries with the
\* same compressedPath, a third key with another extension has its own, and
\* there are two blob files.
C24_Witness ==
  /\ last.op = "saveToCache"
  /\ \E p \in DOMAIN manifest.entries, q \in DOMAIN manifest.entries,
        r \in DOMAIN manifest.entries :
       /\ p # q
       /\ Ext(p) = Ext(q)
       /\ Ext(r) # Ext(p)
       /\ manifest.entries[p].sourceHash = manifest.entries[q].sourceHash
       /\ manifest.entries[p].compressedPath = manifest.entries[q].compressedPath
       /\ manifest.entries[r].compressedPath # manifest.entries[p].compressedPath
  /\ Cardinality(DOMAIN blobs) = 2

\* C26. Cache coherence of hits, as claimed: whenever getCachedFile returns
\* an entry, the file at entry.compressedPath holds the compressed bytes given
\* to the most recent saveToCache for the key, and as many bytes as
\* entry.size.compressed.
C26_HitCoherence ==
  [][ (last'.op = "getCachedFile" /\ last'.result # NULL)
        => /\ last'.result[1].compressedPath \in DOMAIN blobs'
           /\ last'.args[1] \in DOMAIN saved
           /\ blobs'[last'.result[1].compressedPath] = saved[last'.args[1]]
           /\ Len(blobs'[last'.result[1].compressedPath])
                = last'.result[1].size.compressed ]_vars

\* C27. Blob location, as claimed: for every originalPath saveToCache writes
\* the compressed bytes to the file of the cache directory whose name is the
\* hash, a dot and the extension of originalPath.
C27_BlobLocation ==
  [][ last'.op = "saveToCache"
        => /\ ~last'.threw
           /\ Join(CacheDir, <<SHA256(last'.args[2]), ".">> \o Extname(last'.args[1]))
                \in DOMAIN blobs'
           /\ blobs'[Join(CacheDir, <<SHA256(last'.args[2]), ".">>
                                      \o Extname(last'.args[1]))]
                = last'.args[3] ]_vars

\* C25. Blob overwrite, as claimed: whenever saveToCache writes to a blob
\* path that is there already, the bytes it writes are the bytes stored there.
C25_BlobOverwriteIdempotent ==
  [][ ( /\ last'.op = "saveToCache"
        /\ ~last'.threw
        /\ CachedFilePath(last'.args[1], SHA256(last'.args[2])) \in DOMAIN blobs )
        => blobs'[CachedFilePath(last'.args[1], SHA256(last'.args[2]))]
             = blobs[CachedFilePath(last'.args[1], SHA256(last'.args[2]))] ]_vars

\* C28. Upsert touches one key, as claimed: saveToCache(p, ...) puts the new
\* entry in the place of the one p had, a lookup with the hash and the
\* settings of that entry then misses when either differs from the new one,
\* and the entries of the other keys are as they were.
C28_UpsertOneKey ==
  [][ (last'.op = "saveToCache" /\ ~last'.threw)
        => /\ DOMAIN manifest'.entries = (DOMAIN manifest.entries) \cup {last'.args[1]}
           /\ manifest'.entries[last'.args[1]].sourceHash = SHA256(last'.args[2])
           /\ manifest'.entries[last'.args[1]].settings = last'.args[4]
           /\ \A q \in (DOMAIN manifest.entries) \ {last'.args[1]} :
                manifest'.entries[q] = manifest.entries[q]
           /\ ( /\ last'.args[1] \in DOMAIN manifest.entries
                /\ \/ manifest.entries[last'.args[1]].sourceHash # SHA256(last'.args[2])
                   \/ manifest.entries[last'.args[1]].settings # last'.args[4] )
                => GetCachedFileOutcome(manifest', blobs', last'.args[1],
                                        manifest.entries[last'.args[1]].sourceHash,
                                        manifest.entries[last'.args[1]].settings).result
                     = NULL ]_vars

(***************************************************************************)
(* Further properties of the manager (Spec)                                *)
(***************************************************************************)
\* C29. Stored fingerprint reflects the arguments: the entry that
\* saveToCache(p, B, C, S) puts into the manifest has the SHA-256 of B, the
\* length of B, the length of C and S, whatever entry p had before and
\* whatever was stored for the other keys.
C29_StoredFingerprint ==
  [][ (last'.op = "saveToCache" /\ ~last'.threw)
        => /\ last'.args[1] \in DOMAIN manifest'.entries
           /\ manifest'.entries[last'.args[1]].sourceHash = SHA256(last'.args[2])
           /\ manifest'.entries[last'.args[1]].size.original = Len(last'.args[2])
           /\ manifest'.entries[last'.args[1]].size.compressed = Len(last'.args[3])
           /\ manifest'.entries[last'.args[1]].settings = last'.args[4] ]_vars

\* saveToCache has put an entry for a key after bytes with another hash had
\* been stored, and the entry has the hash of the bytes of this call.
C29_Witness ==
  /\ last.op = "saveToCache"
  /\ ~last.threw
  /\ ~last.repeat
  /\ manifest.entries[last.args[1]].sourceHash = SHA256(last.args[2])
  /\ manifest.entries[last.args[1]].size.original = Len(last.args[2])
  /\ \E f \in DOMAIN blobs : f # manifest.entries[last.args[1]].compressedPath

\* getCachedFile has healed: it found the blob file of an entry missing.
Healed(l) == l.log = "Cached file does not exist, removing entry."

\* C30. Lookup is read-only except for self-heal: a getCachedFile that
\* returns an entry, or null for a key that is absent or whose hash or
\* settings differ, leaves the manifest in memory, manifest.json and the
\* blob files as they were, and the lookup that hit hits again; one that
\* heals a dangling entry removes the entry of its key and no other.
C30_LookupReadOnly ==
  [][ last'.op = "getCachedFile"
        => /\ blobs' = blobs
           /\ ~Healed(last')
                => /\ manifest' = manifest
                   /\ manifestFile' = manifestFile
                   /\ last'.result # NULL
                        => GetCachedFileOutcome(manifest', blobs', last'.args[1],
                                                last'.result[1].sourceHash,
                                                last'.result[1].settings).result
                             = last'.result
           /\ Healed(last')
                => /\ last'.result = NULL
                   /\ DOMAIN manifest'.entries
                        = (DOMAIN manifest.entries) \ {last'.args[1]}
                   /\ last'.args[1] \in DOMAIN manifest.entries
                   /\ \A q \in DOMAIN manifest'.entries :
                        manifest'.entries[q] = manifest.entries[q]
                   /\ manifest'.version = manifest.version
                   /\ manifestFile' = <<StringifyJSON(manifest')>> ]_vars

\* A lookup has healed the dangling entry of one key and the entry of the
\* other key is still there.
C30_Witness ==
  /\ last.op = "getCachedFile"
  /\ Healed(last)
  /\ last.args[1] \notin DOMAIN manifest.entries
  /\ manifest.entries # <<>>

\* C31. Key-order independence, as claimed: getCachedFile returns the entry
\* of a key when the hash is that of the entry, the blob file exists and the
\* settings asked for have the members of the stored settings, in whatever
\* order.
C31_KeyOrderIndependence ==
  initialized =>
    \A p \in DOMAIN manifest.entries, s \in SettingsValues :
      ( /\ StructurallyEqual(manifest.entries[p].settings, s)
        /\ manifest.entries[p].compressedPath \in DOMAIN blobs )
      => Lookup(p, manifest.entries[p].sourceHash, s) = <<manifest.entries[p]>>

\* C33. Invalidation deletes no file: over a call of invalidateCache, with or
\* without a pattern, the blob files and their contents and the cache
\* directory stay, and manifest.json is there after it, holding the manifest
\* that is left.
C33_InvalidationDeletesNoFile ==
  [][ last'.op = "invalidateCache"
        => /\ blobs' = blobs
           /\ dirExists /\ dirExists'
           /\ manifestFile' # <<>>
           /\ ~last'.threw => manifestFile' = <<StringifyJSON(manifest')>>
           /\ DOMAIN manifest'.entries \subseteq DOMAIN manifest.entries ]_vars

\* invalidateCache has removed every entry, and a blob file that no entry
\* refers to any more is there, as is manifest.json.
C33_Witness ==
  /\ last.op = "invalidateCache"
  /\ ~last.threw
  /\ manifest.entries = <<>>
  /\ blobs # <<>>
  /\ manifestFile = <<StringifyJSON(manifest)>>

\* The entries that manifest.json holds, as JSON text: none when there is no
\* such file or it holds no manifest.
FileEntries(file) ==
  IF file # <<>> /\ Parses(file[1]) /\ HasEntries(file[1])
  THEN file[1].entries ELSE <<>>

\* The call that has just returned may remove or replace the entry of p:
\* invalidateCache without a pattern or with a pattern that matches p, a
\* getCachedFile(p, ...) that found the blob file missing, a
\* saveToCache(p, ...).
MayRemove(l, p) ==
  \/ /\ l.op = "invalidateCache"
     /\ l.args[1] = <<>> \/ RegexTest(l.args[1], p)
  \/ l.op = "getCachedFile" /\ l.args[1] = p /\ Healed(l)
  \/ l.op = "saveToCache" /\ l.args[1] = p

\* C34. No eviction: the entry of a key p stays as it is, in the manifest of
\* the manager and in manifest.json, over every step but an invalidateCache
\* without a pattern or with a pattern matching p, a getCachedFile(p, ...)
\* that finds its blob file missing and a saveToCache(p, ...); a new manager
\* starts from manifest.json.
C34_NoEviction ==
  [][ /\ (last'.op # "constructor" /\ manifest' # manifest)
         => \A p \in DOMAIN manifest.entries :
              ( \/ p \notin DOMAIN manifest'.entries
                \/ manifest'.entries[p] # manifest.entries[p] )
              => MayRemove(last', p)
      /\ manifestFile' # manifestFile
         => LET before == FileEntries(manifestFile)
                after == FileEntries(manifestFile')
            IN  \A p \in DOMAIN before :
                  (p \notin DOMAIN after \/ after[p] # before[p])
                  => MayRemove(last', p) ]_vars

\* A saveToCache for one key has returned at a later time than the save of
\* the entry of the other key, which is still there.
C34_Witness ==
  /\ AfterSave
  /\ \E q \in DOMAIN manifest.entries :
       /\ q # last.args[1]
       /\ manifest.entries[q].timestamp < manifest.entries[last.args[1]].timestamp

(***************************************************************************)
(* Properties of the manager with interleaving calls (SpecCalls)           *)
(***************************************************************************)
\* C35. Self-heal does not race away a fresh entry, as claimed: the entry
\* that getCachedFile removes after its stat has failed is the entry whose
\* blob file it looked for.
C35_SelfHealRemovesStaleEntry ==
  [][ \A id \in DOMAIN tasks :
        ( /\ tasks[id].op = "getCachedFile"
          /\ tasks[id].pc = "statted"
          /\ tasks'[id].pc = "flush"
          /\ tasks[id].path \in DOMAIN manifest.entries )
        => manifest.entries[tasks[id].path] = tasks[id].entry[1] ]_vars

\* C36. No lost update in memory: once the saveToCache calls have returned,
\* the manifest in memory holds the entry of each of them whose key no other
\* call has.
C36_NoLostUpdateInMemory ==
  (\A id \in DOMAIN tasks : tasks[id].pc = "returned")
  => \A id \in DOMAIN tasks :
       ( /\ tasks[id].op = "saveToCache"
         /\ \A other \in (DOMAIN tasks) \ {id} : tasks[other].path # tasks[id].path )
       => /\ tasks[id].path \in DOMAIN manifest.entries
          /\ manifest.entries[tasks[id].path] = tasks[id].entry[1]

\* Two saveToCache calls for two keys have run at the same time, the one
\* called second has gone on first after its await, and both have
\* returned.
C36_Witness ==
  /\ DOMAIN tasks = {1, 2}
  /\ \A id \in DOMAIN tasks : tasks[id].pc = "returned"
  /\ tasks[1].op = "saveToCache"
  /\ tasks[2].op = "saveToCache"
  /\ tasks[1].path # tasks[2].path
  /\ manifestFile = tasks[1].snapshot
  /\ manifestFile # <<StringifyJSON(manifest)>>

(***************************************************************************)
(* Further properties of the integration (SpecBuild)                       *)
(***************************************************************************)
\* The build has a cache: it is of the release without options, or its
\* options have cache.enabled.
WithCache(b) == b.phase # "none" /\ (b.version = "fixed" \/ b.options.cache)

\* C32. Driver protocol per candidate: in a build with the cache, the work
\* on a candidate begins with getCachedFile; after a hit the cached bytes are
\* written over the candidate and nothing more is done for it, no
\* compression and no saveToCache; after a miss the compressor is run, and
\* saveToCache begins only when processFile has ended with its output
\* written over the candidate.
C32_DriverProtocol ==
  [][ (WithCache(build) /\ build'.count = build.count)
        => \A c \in DOMAIN tasks :
             /\ (tasks[c].pc = "new" /\ tasks'[c].pc # "new")
                  => /\ LoopLookupStep
                     /\ LookedUp = c
                     /\ IF last'.result # NULL
                        THEN /\ tasks'[c].pc = "hit"
                             /\ site'[c] = blobs[last'.result[1].compressedPath]
                        ELSE /\ tasks'[c].pc = "process"
                             /\ site'[c] = site[c]
                     /\ <<manifest.entries, blobs>>' = <<manifest.entries, blobs>>
             /\ tasks[c].pc = "hit"
                  => tasks'[c].pc = "hit" /\ site'[c] = site[c]
             /\ (tasks'[c].pc = "blob" /\ tasks[c].pc # "blob")
                  => /\ tasks[c].pc = "process"
                     /\ site'[c] \in CompressOutputs(site[c], CompressorOptions(build, c))
                     /\ <<manifest, blobs>>' = <<manifest, blobs>>
             /\ (tasks'[c].pc \in {"flush", "saved"} /\ tasks'[c].pc # tasks[c].pc)
                  => tasks[c].pc \in {"blob", "flush"} ]_vars

\* In one build a candidate has been served from the cache and the other
\* has been compressed and saved.
C32_Witness ==
  /\ WithCache(build)
  /\ build.phase = "done"
  /\ \E c, d \in DOMAIN tasks : tasks[c].pc = "hit" /\ tasks[d].pc = "saved"

\* C37. The build hook waits for its cache writes, as claimed: when the hook
\* of a build with the cache has returned, every saveToCache it started has
\* returned and manifest.json has an entry for every file the build
\* compressed.
C37_HookWaitsForCacheWrites ==
  (WithCache(build) /\ build.phase = "done")
  => \A c \in DOMAIN tasks :
       tasks[c].pc \in {"blob", "flush", "saved"}
       => /\ tasks[c].pc = "saved"
          /\ c \in DOMAIN FileEntries(manifestFile)

\* C38. Only gains are cached, as claimed: saveToCache begins for a
\* candidate only with a result written that has fewer bytes than the
\* original, every entry has size.compressed < size.original, and a hit
\* writes no more bytes over a file than it had.
C38_OnlyGainsCached ==
  [][ build.phase # "none"
        => /\ \A c \in (DOMAIN tasks) \cap (DOMAIN tasks') :
                /\ (tasks'[c].pc = "blob" /\ tasks[c].pc = "process")
                     => Len(site'[c]) < Len(site[c])
                /\ (tasks'[c].pc = "hit" /\ tasks[c].pc = "new")
                     => Len(site'[c]) <= Len(site[c])
           /\ \A c \in DOMAIN manifest'.entries :
                manifest'.entries[c].size.compressed
                  < manifest'.entries[c].size.original ]_vars

(***************************************************************************)
(* Properties of one instance and its invocations (SpecHooks)              *)
(***************************************************************************)
\* C39. Counters partition the candidates, as claimed: when an invocation of
\* 'astro:build:done' has returned, cacheHits + processedFiles +
\* skippedFiles is the number of files that invocation has found.
C39_CountersPartition ==
  (build.phase = "done")
  => build.counters.cacheHits + build.counters.processedFiles
       + build.counters.skippedFiles = build.found

====
